---- MODULE Spec2Model ----
(***************************************************************************)
(* Grade calculator (src/script.js): the in-memory CalculatorState, its     *)
(* persistence to localStorage (saveState / loadState / clearAllData, the   *)
(* debounced save, the flush on visibility loss and unload) and the grade   *)
(* aggregation functions.                                                   *)
(*                                                                          *)
(* JavaScript values are tagged records [t |-> type, v |-> payload], so     *)
(* that null, undefined, NaN, numbers, strings, arrays and objects can sit  *)
(* in the same field, as they can in the program after a load.  A quotient  *)
(* of two numbers is kept exact, as a reduced fraction.                     *)
(***************************************************************************)
EXTENDS Integers, Sequences, FiniteSets, TLC

\* ------------------------------------------------------------------------
\* JavaScript values
\* ------------------------------------------------------------------------

Null == [t |-> "null", v |-> 0]

Undefined == [t |-> "undefined", v |-> 0]

NaN == [t |-> "nan", v |-> 0]

Num(n) == [t |-> "number", v |-> n]

Str(s) == [t |-> "string", v |-> s]

Bool(b) == [t |-> "boolean", v |-> b]

Arr(s) == [t |-> "array", v |-> s]

Obj(f) == [t |-> "object", v |-> f]

\* A quotient n/d of two numbers.
Ratio(n, d) == [t |-> "ratio", v |-> <<n, d>>]

\* The string localStorage holds: a sequence of JSON tokens.
Text(toks) == [t |-> "text", v |-> toks]

\* ToBoolean: what `if (x)`, `x || y` and `!x` see.
Truthy(x) ==
    CASE x.t = "null" -> FALSE
      [] x.t = "undefined" -> FALSE
      [] x.t = "nan" -> FALSE
      [] x.t = "boolean" -> x.v
      [] x.t = "number" -> x.v # 0
      [] x.t = "ratio" -> x.v[1] # 0
      [] x.t = "string" -> x.v # ""
      [] x.t = "text" -> x.v # <<>>
      [] OTHER -> TRUE

\* a || b
Or(a, b) == IF Truthy(a) THEN a ELSE b

\* a === b, for the primitives the program compares (ids, null, undefined).
StrictEq(a, b) == a.t # "nan" /\ a = b

\* x.k: undefined for a key the object lacks and for any property of a
\* primitive or an array the program does not define.  (null.k and
\* undefined.k throw: the callers test IsNullish first.)
Get(x, k) == IF x.t = "object" /\ k \in DOMAIN x.v THEN x.v[k] ELSE Undefined

IsNullish(x) == x.t \in {"null", "undefined"}

\* ------------------------------------------------------------------------
\* JSON.stringify and JSON.parse, over token sequences
\* ------------------------------------------------------------------------

Punct(s) == [t |-> "punct", v |-> s]

Lit(s) == [t |-> "literal", v |-> s]

NumTok(n) == [t |-> "number", v |-> n]

StrTok(s) == [t |-> "string", v |-> s]

\* The order in which the program's object literals create their keys
\* (lines 47-52, 262-267, 373-378); JSON.stringify writes keys in creation
\* order.
KeyOrder ==
    << "categories", "isWeighted", "nextCategoryId", "nextGradeId",
       "id", "name", "weight", "grades", "score", "max" >>

RECURSIVE Stringify(_)
RECURSIVE StringifyElems(_, _)
RECURSIVE StringifyMembers(_, _, _)

\* JSON.stringify(x): NaN becomes null; inside an array undefined becomes
\* null; a member whose value is undefined is left out.
Stringify(x) ==
    CASE x.t = "null" -> << Lit("null") >>
      [] x.t = "undefined" -> << Lit("null") >>
      [] x.t = "nan" -> << Lit("null") >>
      [] x.t = "boolean" -> << Lit(IF x.v THEN "true" ELSE "false") >>
      [] x.t = "number" -> << NumTok(x.v) >>
      [] x.t = "string" -> << StrTok(x.v) >>
      [] x.t = "array" ->
            << Punct("[") >> \o StringifyElems(x.v, 1) \o << Punct("]") >>
      [] x.t = "object" ->
            << Punct("{") >> \o StringifyMembers(x.v, 1, TRUE) \o << Punct("}") >>

StringifyElems(s, i) ==
    IF i > Len(s) THEN << >>
    ELSE (IF i > 1 THEN << Punct(",") >> ELSE << >>)
         \o Stringify(s[i]) \o StringifyElems(s, i + 1)

StringifyMembers(f, j, first) ==
    IF j > Len(KeyOrder) THEN << >>
    ELSE LET k == KeyOrder[j]
         IN  IF k \in DOMAIN f /\ f[k].t # "undefined"
             THEN (IF first THEN << >> ELSE << Punct(",") >>)
                  \o << StrTok(k), Punct(":") >> \o Stringify(f[k])
                  \o StringifyMembers(f, j + 1, FALSE)
             ELSE StringifyMembers(f, j + 1, first)

ParseFail == [ok |-> FALSE, v |-> Undefined, i |-> 0]

ParseOk(x, i) == [ok |-> TRUE, v |-> x, i |-> i]

EmptyObject == [k \in {} |-> Undefined]

RECURSIVE ParseValue(_, _)
RECURSIVE ParseElems(_, _, _)
RECURSIVE ParseMembers(_, _, _)

\* One JSON value starting at token i: the value and the place after it.
ParseValue(toks, i) ==
    IF i > Len(toks) THEN ParseFail
    ELSE LET tk == toks[i]
         IN  CASE tk.t = "literal" ->
                    (CASE tk.v = "null" -> ParseOk(Null, i + 1)
                       [] tk.v = "true" -> ParseOk(Bool(TRUE), i + 1)
                       [] tk.v = "false" -> ParseOk(Bool(FALSE), i + 1)
                       [] OTHER -> ParseFail)
               [] tk.t = "number" -> ParseOk(Num(tk.v), i + 1)
               [] tk.t = "string" -> ParseOk(Str(tk.v), i + 1)
               [] tk = Punct("[") ->
                    IF i + 1 <= Len(toks) /\ toks[i + 1] = Punct("]")
                    THEN ParseOk(Arr(<< >>), i + 2)
                    ELSE ParseElems(toks, i + 1, << >>)
               [] tk = Punct("{") ->
                    IF i + 1 <= Len(toks) /\ toks[i + 1] = Punct("}")
                    THEN ParseOk(Obj(EmptyObject), i + 2)
                    ELSE ParseMembers(toks, i + 1, EmptyObject)
               [] OTHER -> ParseFail

ParseElems(toks, i, acc) ==
    LET r == ParseValue(toks, i)
    IN  IF ~r.ok \/ r.i > Len(toks) THEN ParseFail
        ELSE IF toks[r.i] = Punct(",")
             THEN ParseElems(toks, r.i + 1, Append(acc, r.v))
        ELSE IF toks[r.i] = Punct("]")
             THEN ParseOk(Arr(Append(acc, r.v)), r.i + 1)
        ELSE ParseFail

ParseMembers(toks, i, acc) ==
    IF i + 1 > Len(toks) \/ toks[i].t # "string" \/ toks[i + 1] # Punct(":")
    THEN ParseFail
    ELSE LET r == ParseValue(toks, i + 2)
             f == (toks[i].v :> r.v) @@ acc
         IN  IF ~r.ok \/ r.i > Len(toks) THEN ParseFail
             ELSE IF toks[r.i] = Punct(",") THEN ParseMembers(toks, r.i + 1, f)
             ELSE IF toks[r.i] = Punct("}") THEN ParseOk(Obj(f), r.i + 1)
             ELSE ParseFail

\* JSON.parse(text): [ok, v]; ~ok is the SyntaxError it throws.
JSONParse(text) ==
    LET r == ParseValue(text.v, 1)
    IN  IF r.ok /\ r.i = Len(text.v) + 1
        THEN [ok |-> TRUE, v |-> r.v]
        ELSE [ok |-> FALSE, v |-> Undefined]

JSONStringify(x) == Text(Stringify(x))

\* ------------------------------------------------------------------------
\* Numbers: +, *, /, > and parseFloat
\* ------------------------------------------------------------------------

RECURSIVE GCD(_, _)
GCD(a, b) == IF b = 0 THEN a ELSE GCD(b, a % b)

Abs(n) == IF n < 0 THEN -n ELSE n

\* The number n/d (d # 0): an integer as Num, any other as a reduced Ratio.
MkNum(n, d) ==
    LET g == GCD(Abs(n), Abs(d))
        s == IF d < 0 THEN -1 ELSE 1
        nn == (s * n) \div g
        dd == (s * d) \div g
    IN  IF dd = 1 THEN Num(nn) ELSE Ratio(nn, dd)

\* ToNumber: null is 0, a boolean 0 or 1; undefined is NaN.  (Strings are
\* not given to the arithmetic here: the number fields hold numbers or null.)
ToNumber(x) ==
    CASE x.t \in {"number", "ratio"} -> x
      [] x.t = "null" -> Num(0)
      [] x.t = "boolean" -> Num(IF x.v THEN 1 ELSE 0)
      [] OTHER -> NaN

Numer(x) == IF x.t = "ratio" THEN x.v[1] ELSE x.v

Denom(x) == IF x.t = "ratio" THEN x.v[2] ELSE 1

\* a + b
Add(a, b) ==
    LET x == ToNumber(a)
        y == ToNumber(b)
    IN  IF x.t = "nan" \/ y.t = "nan" THEN NaN
        ELSE MkNum(Numer(x) * Denom(y) + Numer(y) * Denom(x), Denom(x) * Denom(y))

\* a * b
Mul(a, b) ==
    LET x == ToNumber(a)
        y == ToNumber(b)
    IN  IF x.t = "nan" \/ y.t = "nan" THEN NaN
        ELSE MkNum(Numer(x) * Numer(y), Denom(x) * Denom(y))

\* a / b; a division by zero is not a finite number (NaN here).
Div(a, b) ==
    LET x == ToNumber(a)
        y == ToNumber(b)
    IN  IF x.t = "nan" \/ y.t = "nan" \/ Numer(y) = 0 THEN NaN
        ELSE MkNum(Numer(x) * Denom(y), Denom(x) * Numer(y))

\* a > b: false when either side is NaN.
Gt(a, b) ==
    LET x == ToNumber(a)
        y == ToNumber(b)
    IN  /\ x.t # "nan"
        /\ y.t # "nan"
        /\ Numer(x) * Denom(y) > Numer(y) * Denom(x)

\* The integers a field's text is parsed over.
NumberTexts == 0 .. 50

\* parseFloat(s) for the value of a number field: the number the text is,
\* NaN for the empty text.
ParseFloat(s) ==
    IF \E n \in NumberTexts : ToString(n) = s
    THEN Num(CHOOSE n \in NumberTexts : ToString(n) = s)
    ELSE NaN

\* ------------------------------------------------------------------------
\* Grade calculation (lines 133-181)
\* ------------------------------------------------------------------------

\* grades.reduce((sum, g) => sum + g[key], 0), from element i on.
RECURSIVE ReduceSum(_, _, _, _)
ReduceSum(s, key, i, sum) ==
    IF i > Len(s) THEN sum
    ELSE ReduceSum(s, key, i + 1, Add(sum, Get(s[i], key)))

\* IsValidGrade without the test of max > 0.
IsValidGradeAnyMax(g) ==
    /\ ~StrictEq(Get(g, "score"), Null)
    /\ ~StrictEq(Get(g, "max"), Null)

IsValidGrade(g) ==
    /\ ~StrictEq(Get(g, "score"), Null)
    /\ ~StrictEq(Get(g, "max"), Null)
    /\ Gt(Get(g, "max"), Num(0))

calculateCategoryAverage(grades) ==
    LET validGrades == SelectSeq(grades.v, IsValidGrade)
        totalScore == ReduceSum(validGrades, "score", 1, Num(0))
        totalMax == ReduceSum(validGrades, "max", 1, Num(0))
    IN  IF Len(validGrades) = 0 THEN Null
        ELSE Mul(Div(totalScore, totalMax), Num(100))

\* {...cat, average: calculateCategoryAverage(cat.grades)}
WithAverage(cat) ==
    Obj(("average" :> calculateCategoryAverage(Get(cat, "grades"))) @@ cat.v)

\* HasAverage that keeps the categories without data.
HasAverageAlways(cat) == cat.t = "object"

HasAverage(cat) == ~StrictEq(Get(cat, "average"), Null)

\* reduce((sum, cat) => sum + (cat.weight || 0), 0)
RECURSIVE ReduceWeight(_, _, _)
ReduceWeight(s, i, sum) ==
    IF i > Len(s) THEN sum
    ELSE ReduceWeight(s, i + 1, Add(sum, Or(Get(s[i], "weight"), Num(0))))

\* reduce((sum, cat) => sum + cat.average * (cat.weight || 0), 0)
RECURSIVE ReduceWeighted(_, _, _)
ReduceWeighted(s, i, sum) ==
    IF i > Len(s) THEN sum
    ELSE ReduceWeighted(s, i + 1,
            Add(sum, Mul(Get(s[i], "average"), Or(Get(s[i], "weight"), Num(0)))))

calculateFinalGrade(categories, weighted) ==
    LET mapped == [i \in 1 .. Len(categories.v) |-> WithAverage(categories.v[i])]
        categoriesWithAvg == SelectSeq(mapped, HasAverage)
        totalWeight == ReduceWeight(categoriesWithAvg, 1, Num(0))
        weightedSum == ReduceWeighted(categoriesWithAvg, 1, Num(0))
        sum == ReduceSum(categoriesWithAvg, "average", 1, Num(0))
    IN  IF Len(categoriesWithAvg) = 0 THEN Null
        ELSE IF weighted
             THEN IF StrictEq(totalWeight, Num(0)) THEN Null
                  ELSE Div(weightedSum, totalWeight)
             ELSE Div(sum, Num(Len(categoriesWithAvg)))

\* ------------------------------------------------------------------------
\* State and storage (lines 16-21, 45-104)
\* ------------------------------------------------------------------------

\* Caps on the two id counters: no id is minted at or past the cap.
MaxNextCategoryId == 3

MaxNextGradeId == 3

\* const state = {...}: the state of a freshly loaded page.
InitialState ==
    [ categories |-> Arr(<< >>),
      isWeighted |-> Bool(TRUE),
      nextCategoryId |-> Num(1),
      nextGradeId |-> Num(1) ]

dataToSave(st) ==
    Obj([ categories |-> st.categories,
          isWeighted |-> st.isWeighted,
          nextCategoryId |-> st.nextCategoryId,
          nextGradeId |-> st.nextGradeId ])

\* saveState(): the item under STORAGE_KEY afterwards.  ~ok: setItem throws
\* (storage disabled, quota exceeded); the exception is caught and the item
\* stays as it was.
saveState(st, item, ok) ==
    IF ok THEN JSONStringify(dataToSave(st)) ELSE item

\* loadState with isWeighted read as data.isWeighted || true.
loadStateOrTrue(st, item, ok) ==
    LET data == JSONParse(item).v
    IN  IF ~ok \/ ~Truthy(item) THEN [state |-> st, ret |-> FALSE]
        ELSE IF ~JSONParse(item).ok \/ IsNullish(data)
             THEN [state |-> st, ret |-> FALSE]
        ELSE [ state |->
                 [ categories |-> Or(Get(data, "categories"), Arr(<< >>)),
                   isWeighted |-> Or(Get(data, "isWeighted"), Bool(TRUE)),
                   nextCategoryId |-> Or(Get(data, "nextCategoryId"), Num(1)),
                   nextGradeId |-> Or(Get(data, "nextGradeId"), Num(1)) ],
               ret |-> TRUE ]

\* loadState() on state st: the state afterwards and the value returned.
\* ~ok: getItem throws.  JSON.parse may throw, and so does data.categories
\* when the text is the JSON null; every throw is caught before any field is
\* assigned.
loadState(st, item, ok) ==
    LET data == JSONParse(item).v
    IN  IF ~ok \/ ~Truthy(item) THEN [state |-> st, ret |-> FALSE]
        ELSE IF ~JSONParse(item).ok \/ IsNullish(data)
             THEN [state |-> st, ret |-> FALSE]
        ELSE [ state |->
                 [ categories |-> Or(Get(data, "categories"), Arr(<< >>)),
                   isWeighted |->
                       IF ~StrictEq(Get(data, "isWeighted"), Undefined)
                       THEN Get(data, "isWeighted")
                       ELSE Bool(TRUE),
                   nextCategoryId |-> Or(Get(data, "nextCategoryId"), Num(1)),
                   nextGradeId |-> Or(Get(data, "nextGradeId"), Num(1)) ],
               ret |-> TRUE ]

\* debounce without clearTimeout: every call adds a timeout.
debounceNoClear(pending) == pending + 1

\* timeout ids pending after a call of the debounced function:
\* clearTimeout(timeout) cancels the one pending, setTimeout adds one.
debounce(pending) == (IF pending > 0 THEN pending - 1 ELSE 0) + 1

\* timeout ids pending after one fires and `later` runs: the one that fired
\* is gone, and clearTimeout(timeout) cancels the latest one set.
later(pending) == IF pending >= 2 THEN pending - 2 ELSE 0

\* ------------------------------------------------------------------------
\* Categories and grades (lines 261-285, 369-401)
\* ------------------------------------------------------------------------

\* Index of the first element whose id is `id` (find), 0 when there is none.
FindIndex(s, id) ==
    IF \E i \in 1 .. Len(s) : StrictEq(Get(s[i], "id"), id)
    THEN CHOOSE i \in 1 .. Len(s) :
            /\ StrictEq(Get(s[i], "id"), id)
            /\ \A j \in 1 .. i - 1 : ~StrictEq(Get(s[j], "id"), id)
    ELSE 0

CategoryId(n) == Str("cat-" \o ToString(n))

GradeId(n) == Str("grade-" \o ToString(n))

\* createCategory(name, weight): the state afterwards and the new category.
createCategory(st, name, weight) ==
    LET category ==
            Obj([ id |-> CategoryId(st.nextCategoryId.v),
                  name |-> name,
                  weight |-> weight,
                  grades |-> Arr(<< >>) ])
    IN  [ state |->
            [st EXCEPT !.nextCategoryId = Num(@.v + 1),
                       !.categories = Arr(Append(@.v, category))],
          category |-> category ]

\* removeCategory that hands the number of the newest category back to the
\* counter when that category is removed.
removeCategoryReuse(st, categoryId) ==
    LET Keep(c) == ~StrictEq(Get(c, "id"), categoryId)
        newest == st.nextCategoryId.v - 1
    IN  [st EXCEPT !.categories = Arr(SelectSeq(@.v, Keep)),
                   !.nextCategoryId =
                       IF categoryId = CategoryId(newest) /\ ~\A i \in 1 .. Len(st.categories.v) : Keep(st.categories.v[i])
                       THEN Num(newest) ELSE @]

\* removeCategory(categoryId): the state afterwards.
removeCategory(st, categoryId) ==
    LET Keep(c) == ~StrictEq(Get(c, "id"), categoryId)
    IN  [st EXCEPT !.categories = Arr(SelectSeq(@.v, Keep))]

\* The category at index i with field key set to x.
SetField(st, i, key, x) ==
    [st EXCEPT !.categories = Arr([@.v EXCEPT ![i] = Obj((key :> x) @@ @.v)])]

\* createGrade that does not advance nextGradeId.
createGradeSameId(st, categoryId, name, score, max) ==
    LET i == FindIndex(st.categories.v, categoryId)
        grade ==
            Obj([ id |-> GradeId(st.nextGradeId.v),
                  name |-> name,
                  score |-> score,
                  max |-> max ])
        grades == Get(st.categories.v[i], "grades")
    IN  IF i = 0 THEN [state |-> st, grade |-> Null]
        ELSE [ state |-> SetField(st, i, "grades", Arr(Append(grades.v, grade))),
               grade |-> grade ]

\* createGrade(categoryId, name, score, max): the state afterwards and the
\* value returned (null when no category has the id).
createGrade(st, categoryId, name, score, max) ==
    LET i == FindIndex(st.categories.v, categoryId)
        grade ==
            Obj([ id |-> GradeId(st.nextGradeId.v),
                  name |-> name,
                  score |-> score,
                  max |-> max ])
        grades == Get(st.categories.v[i], "grades")
    IN  IF i = 0 THEN [state |-> st, grade |-> Null]
        ELSE [ state |->
                 [SetField(st, i, "grades", Arr(Append(grades.v, grade)))
                     EXCEPT !.nextGradeId = Num(@.v + 1)],
               grade |-> grade ]

\* removeGrade by grades.splice(grades.findIndex(...), 1): an index of -1
\* removes the last grade.
removeGradeSplice(st, categoryId, gradeId) ==
    LET i == FindIndex(st.categories.v, categoryId)
        grades == Get(st.categories.v[i], "grades")
        j == FindIndex(grades.v, gradeId)
        gone == IF j = 0 THEN Len(grades.v) ELSE j
    IN  IF i = 0 THEN st
        ELSE SetField(st, i, "grades",
                      Arr(SubSeq(grades.v, 1, gone - 1)
                          \o SubSeq(grades.v, gone + 1, Len(grades.v))))

\* removeGrade(categoryId, gradeId): the state afterwards.
removeGrade(st, categoryId, gradeId) ==
    LET i == FindIndex(st.categories.v, categoryId)
        Keep(g) == ~StrictEq(Get(g, "id"), gradeId)
        grades == Get(st.categories.v[i], "grades")
    IN  IF i = 0 THEN st
        ELSE SetField(st, i, "grades", Arr(SelectSeq(grades.v, Keep)))

\* The grade at index j of the category at index i with field key set to x
\* (the input handlers of renderGrade assign to the grade object).
SetGradeField(st, i, j, key, x) ==
    LET grades == Get(st.categories.v[i], "grades")
    IN  SetField(st, i, "grades",
                 Arr([grades.v EXCEPT ![j] = Obj((key :> x) @@ @.v)]))

\* clearAllData() once confirmed: the state after the reset and the seeding
\* of the default category.
clearedState(st) ==
    createCategory(
        [st EXCEPT !.categories = Arr(<< >>),
                   !.nextCategoryId = Num(1),
                   !.nextGradeId = Num(1)],
        Str("Assignments"), Num(100)).state

\* ------------------------------------------------------------------------
\* The running page
\* ------------------------------------------------------------------------

VARIABLES
    state,      \* the state object (lines 16-21)
    storage,    \* localStorage's item under STORAGE_KEY: Null or a Text
    timers,     \* timeouts of debouncedSave that are pending
    phase,      \* "start", "running", "unloaded" or "crashed"
    lastOp,     \* history: the operation of the last step and how it went
    minted,     \* history: ids minted since the page loaded or was cleared
    writes,     \* history: saveState calls by the timer since the last
                \*          call of debouncedSave
    burst,      \* history: calls of debouncedSave in the current burst, or
                \*          in the last one once its timer has fired
    lastSaved,  \* history: the state the last saveState call was given
    result,     \* the last call of a calculation function
    steps       \* events handled so far

vars ==
    << state, storage, timers, phase, lastOp, minted, writes, burst,
       lastSaved, result, steps >>

\* Events of one run.
MaxSteps == 6

Op(name, how) == [op |-> name, how |-> how]

NoResult == [fn |-> "none", arg |-> Null, weighted |-> FALSE, value |-> Null]

NoneSaved == [any |-> FALSE, ok |-> FALSE, state |-> InitialState]

\* Texts typed into the fields.  The score, max and weight fields are number
\* fields: their value is the empty text or a number's text.
NameTexts == {"Quiz"}

GradeNameTexts == {"hw"}

WeightTexts == {"", "40"}

ScoreTexts == {"", "9"}

MaxTexts == {""}

Init ==
    /\ state = InitialState
    /\ storage = Null
    /\ timers = 0
    /\ phase = "start"
    /\ lastOp = Op("none", "")
    /\ minted = {}
    /\ writes = 0
    /\ burst = 0
    /\ lastSaved = NoneSaved
    /\ result = NoResult
    /\ steps = 0

\* One more event is handled.
Tick == steps < MaxSteps /\ steps' = steps + 1

\* The page is up and handles one more event.
Running == phase = "running" /\ Tick

\* A handler that changed the state through st and called debouncedSave().
Mutated(st) ==
    /\ state' = st
    /\ timers' = debounce(timers)
    /\ writes' = 0
    /\ burst' = IF timers > 0 THEN burst + 1 ELSE 1

Categories == state.categories.v

Grades(i) == Get(Categories[i], "grades").v

CanMintCategory(st) == st.nextCategoryId.v < MaxNextCategoryId

CanMintGrade(st) == st.nextGradeId.v < MaxNextGradeId

\* init() on a freshly loaded page (lines 502-551): loadState, then the
\* stored categories are rendered or the default category is created (and
\* debouncedSave called, on a page with no timeout yet).  Loaded categories
\* that are no array make init throw: a string in forEach, any other value
\* in push, after createCategory has advanced the counter.
PageLoad(ok) ==
    LET loaded == loadState(InitialState, storage, ok)
        st == loaded.state
        stored == loaded.ret /\ st.categories.t = "array" /\ Len(st.categories.v) > 0
        made == createCategory(st, Str("Assignments"), Num(100))
    IN  /\ phase \in {"start", "unloaded"}
        /\ Tick
        /\ IF st.categories.t # "array"
           THEN /\ phase' = "crashed"
                /\ state' = IF st.categories.t = "string"
                            THEN st
                            ELSE [st EXCEPT !.nextCategoryId = Add(@, Num(1))]
                /\ UNCHANGED << timers, writes, burst, minted >>
                /\ lastOp' = Op("init", "threw")
           ELSE IF stored
           THEN /\ phase' = "running"
                /\ state' = st
                /\ timers' = 0
                /\ writes' = 0
                /\ burst' = 0
                /\ minted' = {}
                /\ lastOp' = Op("init", "stored")
           ELSE /\ CanMintCategory(st)
                /\ phase' = "running"
                /\ state' = made.state
                /\ timers' = debounce(0)
                /\ writes' = 0
                /\ burst' = 1
                /\ minted' = {Get(made.category, "id")}
                /\ lastOp' = Op("init", "default")
        /\ UNCHANGED << storage, lastSaved, result >>

\* Click on "add category" (lines 515-529): createCategory().
AddCategoryClick ==
    LET made == createCategory(state, Str("New Category"), Num(25))
    IN  /\ Running
        /\ CanMintCategory(state)
        /\ Mutated(made.state)
        /\ minted' = minted \cup {Get(made.category, "id")}
        /\ lastOp' = Op("createCategory", "")
        /\ UNCHANGED << storage, phase, lastSaved, result >>

\* removeCategory('cat-' + n), for an id in use or not.
RemoveCategory(n) ==
    /\ Running
    /\ Mutated(removeCategory(state, CategoryId(n)))
    /\ lastOp' = Op("removeCategory",
                    IF FindIndex(Categories, CategoryId(n)) = 0
                    THEN "missing" ELSE "found")
    /\ UNCHANGED << storage, phase, minted, lastSaved, result >>

\* The input handler of a category's name field (lines 301-304).
CategoryNameInput(i, text) ==
    /\ Running
    /\ i \in 1 .. Len(Categories)
    /\ Mutated(SetField(state, i, "name", Str(text)))
    /\ lastOp' = Op("nameInput", "")
    /\ UNCHANGED << storage, phase, minted, lastSaved, result >>

\* The input handler of a category's weight field (lines 314-318).
CategoryWeightInput(i, text) ==
    /\ Running
    /\ i \in 1 .. Len(Categories)
    /\ Mutated(SetField(state, i, "weight", Or(ParseFloat(text), Num(0))))
    /\ lastOp' = Op("weightInput", "")
    /\ UNCHANGED << storage, phase, minted, lastSaved, result >>

\* createGrade('cat-' + n) with the default name, score and max.
CreateGrade(n) ==
    LET made == createGrade(state, CategoryId(n), Str(""), Null, Num(100))
    IN  /\ Running
        /\ IF made.grade = Null
           THEN /\ UNCHANGED << state, timers, writes, burst, minted >>
                /\ lastOp' = Op("createGrade", "missing")
           ELSE /\ CanMintGrade(state)
                /\ Mutated(made.state)
                /\ minted' = minted \cup {Get(made.grade, "id")}
                /\ lastOp' = Op("createGrade", "found")
        /\ UNCHANGED << storage, phase, lastSaved, result >>

\* removeGrade('cat-' + n, 'grade-' + m).
RemoveGrade(n, m) ==
    LET i == FindIndex(Categories, CategoryId(n))
    IN  /\ Running
        /\ IF i = 0
           THEN /\ UNCHANGED << state, timers, writes, burst >>
                /\ lastOp' = Op("removeGrade", "noCategory")
           ELSE /\ Mutated(removeGrade(state, CategoryId(n), GradeId(m)))
                /\ lastOp' = Op("removeGrade",
                                IF FindIndex(Grades(i), GradeId(m)) = 0
                                THEN "noGrade" ELSE "found")
        /\ UNCHANGED << storage, phase, minted, lastSaved, result >>

\* The input handlers of a grade's name, score and max fields
\* (lines 429-432, 443-448, 459-464).
GradeNameInput(i, j, text) ==
    /\ Running
    /\ i \in 1 .. Len(Categories)
    /\ j \in 1 .. Len(Grades(i))
    /\ Mutated(SetGradeField(state, i, j, "name", Str(text)))
    /\ lastOp' = Op("gradeNameInput", "")
    /\ UNCHANGED << storage, phase, minted, lastSaved, result >>

GradeScoreInput(i, j, text) ==
    /\ Running
    /\ i \in 1 .. Len(Categories)
    /\ j \in 1 .. Len(Grades(i))
    /\ Mutated(SetGradeField(state, i, j, "score",
                             IF text # "" THEN ParseFloat(text) ELSE Null))
    /\ lastOp' = Op("scoreInput", "")
    /\ UNCHANGED << storage, phase, minted, lastSaved, result >>

GradeMaxInput(i, j, text) ==
    /\ Running
    /\ i \in 1 .. Len(Categories)
    /\ j \in 1 .. Len(Grades(i))
    /\ Mutated(SetGradeField(state, i, j, "max",
                             IF text # "" THEN ParseFloat(text) ELSE Null))
    /\ lastOp' = Op("maxInput", "")
    /\ UNCHANGED << storage, phase, minted, lastSaved, result >>

\* setWeightedMode(weighted) (lines 488-493).
SetWeightedMode(weighted) ==
    /\ Running
    /\ Mutated([state EXCEPT !.isWeighted = Bool(weighted)])
    /\ lastOp' = Op("setWeightedMode", "")
    /\ UNCHANGED << storage, phase, minted, lastSaved, result >>

\* clearAllData() (lines 83-104).  ~ok: removeItem throws and is caught.
ClearAllData(confirmed, ok) ==
    /\ Running
    /\ IF confirmed
       THEN /\ storage' = IF ok THEN Null ELSE storage
            /\ Mutated(clearedState(state))
            /\ minted' = {CategoryId(1)}
            /\ lastOp' = Op("clearAllData", IF ok THEN "ok" ELSE "threw")
       ELSE /\ UNCHANGED << state, storage, timers, writes, burst, minted >>
            /\ lastOp' = Op("clearAllData", "declined")
    /\ UNCHANGED << phase, lastSaved, result >>

\* A pending timeout fires: later() runs saveState (lines 112-115).
TimerFire(ok) ==
    /\ Running
    /\ timers > 0
    /\ timers' = later(timers)
    /\ storage' = saveState(state, storage, ok)
    /\ writes' = writes + 1
    /\ lastOp' = Op("timer", IF ok THEN "ok" ELSE "threw")
    /\ UNCHANGED << state, phase, minted, burst, lastSaved, result >>

\* visibilitychange to hidden calling debouncedSave() instead of saveState().
VisibilityHiddenDebounced(ok) ==
    /\ Running
    /\ Mutated(state)
    /\ lastOp' = Op("hidden", IF ok THEN "ok" ELSE "threw")
    /\ UNCHANGED << storage, phase, minted, lastSaved, result >>

\* visibilitychange to hidden (lines 543-547): saveState().
VisibilityHidden(ok) ==
    /\ Running
    /\ storage' = saveState(state, storage, ok)
    /\ lastOp' = Op("hidden", IF ok THEN "ok" ELSE "threw")
    /\ UNCHANGED << state, timers, phase, minted, writes, burst, lastSaved, result >>

\* beforeunload (line 550): saveState(), and the page and its timers go.
BeforeUnload(ok) ==
    /\ Running
    /\ storage' = saveState(state, storage, ok)
    /\ phase' = "unloaded"
    /\ timers' = 0
    /\ lastOp' = Op("beforeunload", IF ok THEN "ok" ELSE "threw")
    /\ UNCHANGED << state, minted, writes, burst, lastSaved, result >>

CategoryNumbers == 1 .. MaxNextCategoryId

GradeNumbers == 1 .. MaxNextGradeId

Next ==
    \/ \E ok \in BOOLEAN : PageLoad(ok)
    \/ AddCategoryClick
    \/ \E n \in CategoryNumbers : RemoveCategory(n)
    \/ \E i \in CategoryNumbers, text \in NameTexts : CategoryNameInput(i, text)
    \/ \E i \in CategoryNumbers, text \in WeightTexts : CategoryWeightInput(i, text)
    \/ \E n \in CategoryNumbers : CreateGrade(n)
    \/ \E n \in CategoryNumbers, m \in GradeNumbers : RemoveGrade(n, m)
    \/ \E i \in CategoryNumbers, j \in GradeNumbers, text \in GradeNameTexts :
            GradeNameInput(i, j, text)
    \/ \E i \in CategoryNumbers, j \in GradeNumbers, text \in ScoreTexts :
            GradeScoreInput(i, j, text)
    \/ \E i \in CategoryNumbers, j \in GradeNumbers, text \in MaxTexts :
            GradeMaxInput(i, j, text)
    \/ \E weighted \in BOOLEAN : SetWeightedMode(weighted)
    \/ \E confirmed \in BOOLEAN, ok \in BOOLEAN : ClearAllData(confirmed, ok)
    \/ \E ok \in BOOLEAN : TimerFire(ok)
    \/ \E ok \in BOOLEAN : VisibilityHidden(ok)
    \/ \E ok \in BOOLEAN : BeforeUnload(ok)

Spec == Init /\ [][Next]_vars

\* ------------------------------------------------------------------------
\* The store alone: saveState, and loadState on a freshly loaded page,
\* over chosen states and chosen stored items
\* ------------------------------------------------------------------------

\* Categories of a chosen state.
MaxStoreCategories == 2

StoredGrade(n, score, max) ==
    Obj([id |-> GradeId(n), name |-> Str("hw"), score |-> score, max |-> max])

\* Grade lists of the i-th category of a chosen state.
StoredGradeLists(i) ==
    { << >>,
      << StoredGrade(2 * i - 1, Null, Num(100)) >>,
      << StoredGrade(2 * i - 1, Num(9), Num(10)), StoredGrade(2 * i, Num(40), Null) >> }

StoredCategories(i) ==
    { Obj([ id |-> CategoryId(i), name |-> Str("Assignments"),
            weight |-> Num(w), grades |-> Arr(g) ]) :
        w \in {0, 100}, g \in StoredGradeLists(i) }

StoredCategoryLists ==
    UNION { { c \in [1 .. n -> UNION {StoredCategories(i) : i \in 1 .. n}] :
                \A i \in 1 .. n : c[i] \in StoredCategories(i) } :
            n \in 0 .. MaxStoreCategories }

ChosenStates ==
    { [ categories |-> Arr(c), isWeighted |-> Bool(b),
        nextCategoryId |-> Num(n), nextGradeId |-> Num(m) ] :
        c \in StoredCategoryLists, b \in BOOLEAN, n \in {1, 7}, m \in {1, 7} }

\* Records some other writer may have left under the key: any field may be
\* missing (Undefined here: JSON.stringify leaves the member out) or hold a
\* value of another shape.
ForeignRecords ==
    { Obj([ categories |-> c, isWeighted |-> b,
            nextCategoryId |-> n, nextGradeId |-> m ]) :
        c \in { Undefined, Null, Num(0), Num(5), Str(""), Str("abc"),
                Bool(FALSE), Bool(TRUE), Obj(EmptyObject), Arr(<< >>),
                Arr(<< StoredGrade(1, Num(9), Num(10)) >>) },
        b \in {Undefined, Null, Bool(TRUE), Bool(FALSE)},
        n \in {Undefined, Null, Num(0), Num(3)},
        m \in {Undefined, Null, Num(0), Num(3)} }

\* Items that are no JSON object: the empty string, a cut-off text, and the
\* JSON texts null, 5, [] and "abc".
ForeignTexts ==
    { Text(<< >>), Text(<< Punct("{") >>), Text(<< Lit("null") >>),
      Text(<< NumTok(5) >>), Text(<< Punct("["), Punct("]") >>),
      Text(<< StrTok("abc") >>) }

ForeignItems == {JSONStringify(r) : r \in ForeignRecords} \cup ForeignTexts

InitStore ==
    /\ \/ state \in ChosenStates /\ storage = Null
       \/ state = InitialState /\ storage \in ForeignItems
    /\ timers = 0
    /\ phase = "running"
    /\ lastOp = Op("none", "")
    /\ minted = {}
    /\ writes = 0
    /\ burst = 0
    /\ lastSaved = NoneSaved
    /\ result = NoResult
    /\ steps = 0

\* saveState() (lines 45-57).
StoreSave(ok) ==
    /\ storage' = saveState(state, storage, ok)
    /\ lastSaved' = [any |-> TRUE, ok |-> ok, state |-> state]
    /\ lastOp' = Op("saveState", IF ok THEN "ok" ELSE "threw")
    /\ UNCHANGED << state, timers, phase, minted, writes, burst, result, steps >>

\* The page is loaded anew and calls loadState() (lines 63-78, 504).
StoreLoad(ok) ==
    LET loaded == loadState(InitialState, storage, ok)
    IN  /\ state' = loaded.state
        /\ lastOp' = Op("loadState",
                        IF ~ok THEN "threw"
                        ELSE IF loaded.ret THEN "true" ELSE "false")
        /\ UNCHANGED << storage, timers, phase, minted, writes, burst,
                        lastSaved, result, steps >>

NextStore ==
    \/ \E ok \in BOOLEAN : StoreSave(ok)
    \/ \E ok \in BOOLEAN : StoreLoad(ok)

SpecStore == InitStore /\ [][NextStore]_vars

\* ------------------------------------------------------------------------
\* The calculation functions alone, over chosen grade lists and categories
\* ------------------------------------------------------------------------

\* Grades of a chosen grade list, and categories of a chosen category list.
MaxCalcGrades == 2

MaxCalcCategories == 2

CalcGrade(score, max) == Obj([score |-> score, max |-> max])

\* A grade as created, one with no score, one with no max, ones whose max is
\* zero or negative, and two with both.
CalcGrades ==
    { CalcGrade(Null, Num(100)), CalcGrade(Num(9), Null), CalcGrade(Num(5), Num(0)),
      CalcGrade(Num(5), Num(-10)), CalcGrade(Num(9), Num(10)),
      CalcGrade(Num(40), Num(50)) }

CalcGradeLists == UNION { [1 .. n -> CalcGrades] : n \in 0 .. MaxCalcGrades }

CalcCategory(weight, grades) ==
    Obj([ id |-> CategoryId(1), name |-> Str("Assignments"),
          weight |-> weight, grades |-> Arr(grades) ])

CalcWeights == {Num(0), Num(50), Num(-50), Num(30)}

CalcCategoryChoices ==
    { CalcCategory(w, g) :
        w \in CalcWeights,
        g \in { << >>,
                << CalcGrade(Null, Num(100)) >>,
                << CalcGrade(Num(9), Num(10)) >>,
                << CalcGrade(Num(9), Num(10)), CalcGrade(Num(40), Num(50)) >> } }

CalcInputs ==
    { << CalcCategory(Num(100), g) >> : g \in CalcGradeLists }
    \cup UNION { [1 .. n -> CalcCategoryChoices] : n \in 0 .. MaxCalcCategories }

InitCalc ==
    /\ state \in {[InitialState EXCEPT !.categories = Arr(c)] : c \in CalcInputs}
    /\ storage = Null
    /\ timers = 0
    /\ phase = "running"
    /\ lastOp = Op("none", "")
    /\ minted = {}
    /\ writes = 0
    /\ burst = 0
    /\ lastSaved = NoneSaved
    /\ result = NoResult
    /\ steps = 0

\* calculateCategoryAverage(category.grades), as updateCategoryDisplay calls
\* it (line 219).
CalcAverage(i) ==
    /\ i \in 1 .. Len(Categories)
    /\ result' = [ fn |-> "calculateCategoryAverage",
                   arg |-> Get(Categories[i], "grades"),
                   weighted |-> FALSE,
                   value |-> calculateCategoryAverage(Get(Categories[i], "grades")) ]
    /\ lastOp' = Op("calculateCategoryAverage", "")
    /\ UNCHANGED << state, storage, timers, phase, minted, writes, burst,
                    lastSaved, steps >>

\* calculateFinalGrade(state.categories, weighted), as updateFinalGradeDisplay
\* calls it (line 232).
CalcFinal(weighted) ==
    /\ result' = [ fn |-> "calculateFinalGrade",
                   arg |-> state.categories,
                   weighted |-> weighted,
                   value |-> calculateFinalGrade(state.categories, weighted) ]
    /\ lastOp' = Op("calculateFinalGrade", "")
    /\ UNCHANGED << state, storage, timers, phase, minted, writes, burst,
                    lastSaved, steps >>

NextCalc ==
    \/ \E i \in 1 .. MaxCalcCategories : CalcAverage(i)
    \/ \E weighted \in BOOLEAN : CalcFinal(weighted)

SpecCalc == InitCalc /\ [][NextCalc]_vars

\* ------------------------------------------------------------------------
\* Properties
\* ------------------------------------------------------------------------

\* The ids of the categories and grades of a state.
CategoryIdsOf(st) == {Get(st.categories.v[i], "id") : i \in 1 .. Len(st.categories.v)}

GradeIdsOf(st) ==
    UNION { { Get(g.v[j], "id") : j \in 1 .. Len(g.v) } :
            g \in {Get(st.categories.v[i], "grades") : i \in 1 .. Len(st.categories.v)} }

IdsOf(st) == CategoryIdsOf(st) \cup GradeIdsOf(st)

\* The fields of the record a stored item holds, compared one by one with
\* the fields of a state.
Persisted(item, st) ==
    /\ item.t = "text"
    /\ JSONParse(item).ok
    /\ Get(JSONParse(item).v, "categories") = st.categories
    /\ Get(JSONParse(item).v, "isWeighted") = st.isWeighted
    /\ Get(JSONParse(item).v, "nextCategoryId") = st.nextCategoryId
    /\ Get(JSONParse(item).v, "nextGradeId") = st.nextGradeId
    /\ DOMAIN JSONParse(item).v.v =
          {"categories", "isWeighted", "nextCategoryId", "nextGradeId"}

\* C1: over createCategory, removeCategory, createGrade and removeGrade the
\* two counters never decrease, and an id a step brings into the state was
\* never minted before in the session, not even for an entity since removed;
\* a step that creates brings in exactly one such id.
C1_IdsNeverReused ==
    [][ lastOp'.op \in {"createCategory", "removeCategory", "createGrade", "removeGrade"}
        => /\ state'.nextCategoryId.v >= state.nextCategoryId.v
           /\ state'.nextGradeId.v >= state.nextGradeId.v
           /\ (IdsOf(state') \ IdsOf(state)) \cap minted = {}
           /\ (lastOp' \in {Op("createCategory", ""), Op("createGrade", "found")}
                 => Cardinality(IdsOf(state') \ IdsOf(state)) = 1) ]_vars

\* C1 witness: cat-1 was created and removed, and the category created next
\* is cat-2.
C1_Witness ==
    /\ lastOp = Op("createCategory", "")
    /\ CategoryId(1) \in minted
    /\ CategoryIdsOf(state) = {CategoryId(2)}

\* The steps that call debouncedSave().
CallsDebouncedSave(o) ==
    \/ o.op \in { "createCategory", "removeCategory", "nameInput", "weightInput",
                  "gradeNameInput", "scoreInput", "maxInput", "setWeightedMode" }
    \/ o = Op("createGrade", "found")
    \/ o.op = "removeGrade" /\ o.how # "noCategory"
    \/ o.op = "clearAllData" /\ o.how # "declined"
    \/ o = Op("init", "default")

\* C2: a mutation writes nothing (a clear may erase the item) and leaves one
\* timer pending and no write of this burst; when the timer fires the burst
\* is over: saveState is called once, with the state as of the last
\* mutation, which a working storage then holds, and no timer is left to
\* write again before the next mutation.
C2_DebounceCoalesces ==
    [][ /\ CallsDebouncedSave(lastOp')
            => /\ timers' = 1
               /\ writes' = 0
               /\ storage' = storage \/ (lastOp'.op = "clearAllData" /\ storage' = Null)
        /\ lastOp'.op = "timer"
            => /\ state' = state
               /\ timers' = 0
               /\ writes' = 1
               /\ lastOp'.how = "ok" => Persisted(storage', state)
        /\ (phase' = "running" /\ burst' > 0 /\ timers' = 0) => writes' = 1 ]_vars

\* C2 witness: a burst of three mutations has ended in one write.
C2_Witness ==
    /\ lastOp = Op("timer", "ok")
    /\ burst >= 3
    /\ writes = 1
    /\ timers = 0

\* C3: when the page is hidden or about to unload and the storage takes the
\* write, the stored record is the current state at the end of that very
\* step, debounced write pending or not.
C3_FlushOnTeardown ==
    [][ (lastOp'.op \in {"hidden", "beforeunload"} /\ lastOp'.how = "ok")
        => /\ state' = state
           /\ Persisted(storage', state') ]_vars

\* C3 witness: the page was hidden while a debounced write was pending and
\* the item before the flush was not the current state.
C3_Witness ==
    /\ lastOp = Op("hidden", "ok")
    /\ timers = 1
    /\ burst >= 2
    /\ Len(Categories) = 2

\* C4: after a load that found a record, a missing isWeighted is true, a
\* missing counter is 1, and categories that are missing or no array are the
\* empty list.
C4_LoadSubstitutesDefaults ==
    (lastOp = Op("loadState", "true"))
    => LET data == JSONParse(storage).v
       IN  /\ Get(data, "isWeighted") = Undefined => state.isWeighted = Bool(TRUE)
           /\ Get(data, "nextCategoryId") = Undefined => state.nextCategoryId = Num(1)
           /\ Get(data, "nextGradeId") = Undefined => state.nextGradeId = Num(1)
           /\ Get(data, "categories").t # "array" => state.categories = Arr(<< >>)

\* C5: after a confirmed clear the state is the initial state with the
\* default category seeded (isWeighted true among its fields), and the item
\* is gone when removeItem went through.
C5_ClearResetsEveryField ==
    (lastOp.op = "clearAllData" /\ lastOp.how \in {"ok", "threw"})
    => /\ state =
            [ categories |->
                  Arr(<< Obj([ id |-> Str("cat-1"), name |-> Str("Assignments"),
                               weight |-> Num(100), grades |-> Arr(<< >>) ]) >>),
              isWeighted |-> Bool(TRUE),
              nextCategoryId |-> Num(2),
              nextGradeId |-> Num(1) ]
       /\ lastOp.how = "ok" => storage = Null

\* A well-formed state: categories with unique ids, a name, a numeric weight
\* and grades with unique ids whose score and max are numbers or absent;
\* isWeighted a boolean; both counters numbers >= 1.
WellFormedState(st) ==
    /\ st.categories.t = "array"
    /\ \A i \in 1 .. Len(st.categories.v) :
          LET c == st.categories.v[i]
          IN  /\ c.t = "object"
              /\ DOMAIN c.v = {"id", "name", "weight", "grades"}
              /\ c.v.id.t = "string" /\ c.v.name.t = "string"
              /\ c.v.weight.t = "number"
              /\ c.v.grades.t = "array"
              /\ \A j \in 1 .. Len(c.v.grades.v) :
                    LET g == c.v.grades.v[j]
                    IN  /\ g.t = "object"
                        /\ DOMAIN g.v = {"id", "name", "score", "max"}
                        /\ g.v.id.t = "string" /\ g.v.name.t = "string"
                        /\ g.v.score.t \in {"number", "null"}
                        /\ g.v.max.t \in {"number", "null"}
    /\ Cardinality(CategoryIdsOf(st)) = Len(st.categories.v)
    /\ \A i \in 1 .. Len(st.categories.v) :
          Cardinality({ Get(g, "id") : g \in { Get(st.categories.v[i], "grades").v[j] :
                            j \in 1 .. Len(Get(st.categories.v[i], "grades").v) } })
            = Len(Get(st.categories.v[i], "grades").v)
    /\ \A i, k \in 1 .. Len(st.categories.v) :
          i # k => LET ids(n) == { Get(Get(st.categories.v[n], "grades").v[j], "id") :
                                     j \in 1 .. Len(Get(st.categories.v[n], "grades").v) }
                   IN  ids(i) \cap ids(k) = {}
    /\ st.isWeighted.t = "boolean"
    /\ st.nextCategoryId.t = "number" /\ st.nextCategoryId.v >= 1
    /\ st.nextGradeId.t = "number" /\ st.nextGradeId.v >= 1

\* C6: when saveState stored a well-formed state and the page loaded anew
\* reads the item, loadState returns true and the state is the one saved:
\* the same categories and grades in the same order with the same fields,
\* the same isWeighted and counters.
C6_RoundTrip ==
    ( /\ lastOp.op = "loadState"
      /\ lastOp.how # "threw"
      /\ lastSaved.any
      /\ lastSaved.ok
      /\ WellFormedState(lastSaved.state) )
    => /\ lastOp.how = "true"
       /\ state = lastSaved.state

\* C6 witness: a state in unweighted mode with two categories, grades with
\* and without a score or a max, was saved and loaded.
C6_Witness ==
    /\ lastOp = Op("loadState", "true")
    /\ lastSaved.ok
    /\ WellFormedState(lastSaved.state)
    /\ lastSaved.state.isWeighted = Bool(FALSE)
    /\ Len(lastSaved.state.categories.v) = 2
    /\ Cardinality(GradeIdsOf(lastSaved.state)) >= 3

\* C7: removeCategory with an id no category has, removeGrade with an id no
\* category or no grade of the category has, and createGrade with an id no
\* category has leave the state as it was.
C7_NotFoundIsNoOp ==
    [][ ( \/ lastOp' = Op("removeCategory", "missing")
          \/ lastOp' = Op("removeGrade", "noCategory")
          \/ lastOp' = Op("removeGrade", "noGrade")
          \/ lastOp' = Op("createGrade", "missing") )
        => state' = state ]_vars

\* C7 witness: removeGrade was called with the id of no grade on a category
\* that has a grade, in a state with two categories.
C7_Witness ==
    /\ lastOp = Op("removeGrade", "noGrade")
    /\ Len(Categories) = 2
    /\ GradeIdsOf(state) # {}

\* A grade item that counts, in the words of the data model: score and max
\* both present and max > 0.
CountsAsValid(g) ==
    /\ Get(g, "score").t = "number"
    /\ Get(g, "max").t = "number"
    /\ Get(g, "max").v > 0

RECURSIVE SumOver(_, _, _)
\* The sum of field key over the elements of s at the indices in S.
SumOver(s, key, S) ==
    IF S = {} THEN 0
    ELSE LET i == CHOOSE i \in S : TRUE
         IN  Get(s[i], key).v + SumOver(s, key, S \ {i})

ValidPlaces(grades) == {j \in 1 .. Len(grades) : CountsAsValid(grades[j])}

\* 100 * (sum of the valid scores) / (sum of the valid maxes).
ExpectedAverage(grades) ==
    MkNum(100 * SumOver(grades, "score", ValidPlaces(grades)),
          SumOver(grades, "max", ValidPlaces(grades)))

RECURSIVE WeightedSumOver(_, _)
\* The sum of average_i * weight_i over the categories at the indices in S.
WeightedSumOver(cats, S) ==
    IF S = {} THEN Num(0)
    ELSE LET i == CHOOSE i \in S : TRUE
         IN  Add(Mul(ExpectedAverage(Get(cats[i], "grades").v), Get(cats[i], "weight")),
                 WeightedSumOver(cats, S \ {i}))

\* C8: in weighted mode the final grade is no data exactly when no category
\* has a valid item or the weights of those that have one sum to zero;
\* otherwise it is the sum of average_i * weight_i over the categories with
\* data divided by the sum of their weights, and it does not change when a
\* category without data is given another weight or taken out.
C8_WeightedOverCategoriesWithData ==
    (result.fn = "calculateFinalGrade" /\ result.weighted)
    => LET cats == result.arg.v
           WithData == {i \in 1 .. Len(cats) : ValidPlaces(Get(cats[i], "grades").v) # {}}
           HasData(c) == ValidPlaces(Get(c, "grades").v) # {}
           weights == SumOver(cats, "weight", WithData)
       IN  /\ result.value = Null <=> (WithData = {} \/ weights = 0)
           /\ result.value # Null
                => result.value = Div(WeightedSumOver(cats, WithData), Num(weights))
           /\ calculateFinalGrade(Arr(SelectSeq(cats, HasData)), TRUE) = result.value
           /\ \A i \in (1 .. Len(cats)) \ WithData : \A w \in CalcWeights :
                 calculateFinalGrade(
                     Arr([cats EXCEPT ![i] = Obj(("weight" :> w) @@ @.v)]), TRUE)
                   = result.value

\* C8 witness: a category without data and with a weight other than zero
\* sits beside one with data, and the final grade is that one's average.
C8_Witness ==
    /\ result.fn = "calculateFinalGrade"
    /\ result.weighted
    /\ Len(result.arg.v) = 2
    /\ ValidPlaces(Get(result.arg.v[1], "grades").v) = {}
    /\ Get(result.arg.v[1], "weight") = Num(50)
    /\ Get(result.arg.v[2], "weight") = Num(30)
    /\ result.value = Num(90)

\* C9: calculateCategoryAverage returns no data for a list with no valid
\* item and 100 * (sum of valid scores) / (sum of valid maxes) otherwise, an
\* item being valid only with score and max present and max > 0; the call
\* leaves the state, the invalid items of the list included, as it was.
C9_AverageOverValidItems ==
    [][ result'.fn = "calculateCategoryAverage"
        => /\ state' = state
           /\ \E i \in 1 .. Len(state'.categories.v) :
                 Get(state'.categories.v[i], "grades") = result'.arg
           /\ IF ValidPlaces(result'.arg.v) = {}
              THEN result'.value = Null
              ELSE result'.value = ExpectedAverage(result'.arg.v) ]_vars

\* C9 witness: a list with a valid item and an item whose max is negative
\* has the valid item's percentage as its average.
C9_Witness ==
    /\ result.fn = "calculateCategoryAverage"
    /\ result.arg.v = << CalcGrade(Num(5), Num(-10)), CalcGrade(Num(40), Num(50)) >>
    /\ result.value = Num(80)

\* C10: in every state of the page, the category ids are pairwise distinct,
\* the grade ids are pairwise distinct across all categories, and the number
\* at the end of every id is below the counter that mints its kind.
C10_IdsUniqueBelowCounters ==
    phase \in {"running", "unloaded"}
    => LET cats == state.categories.v
           Places == { p \in (1 .. Len(cats)) \X (1 .. MaxNextGradeId + 1) :
                          p[2] <= Len(Get(cats[p[1]], "grades").v) }
           GradeAt(p) == Get(cats[p[1]], "grades").v[p[2]]
       IN  /\ \A i, k \in 1 .. Len(cats) :
                 i # k => Get(cats[i], "id") # Get(cats[k], "id")
           /\ \A p, q \in Places : p # q => Get(GradeAt(p), "id") # Get(GradeAt(q), "id")
           /\ \A i \in 1 .. Len(cats) :
                 \E n \in 1 .. MaxNextCategoryId :
                    Get(cats[i], "id") = CategoryId(n) /\ n < state.nextCategoryId.v
           /\ \A p \in Places :
                 \E n \in 1 .. MaxNextGradeId :
                    Get(GradeAt(p), "id") = GradeId(n) /\ n < state.nextGradeId.v

\* C10 witness: a page that loaded a stored record holds a category with a
\* grade.
C10_Witness ==
    /\ lastOp = Op("init", "stored")
    /\ GradeIdsOf(state) # {}
    /\ Len(Categories) >= 1

====
